---------------------------- MODULE Spec2Model ----------------------------
(***************************************************************************)
(* Bastion reconciliation of the GCP provider extension                    *)
(* (pkg/controller/bastion/actuator_reconcile.go).                         *)
(*                                                                         *)
(* A Reconcile pass is modelled at the granularity of its provider and     *)
(* status-store calls.  The cloud provider is an in-memory store of        *)
(* firewall rules, one disk and one instance, keyed by name.  Go pointers  *)
(* are records with a "nil" field, Go strings are TLA+ strings ("" is the  *)
(* empty string) and Go slices are sequences.                              *)
(***************************************************************************)
EXTENDS Integers, Sequences, FiniteSets, TLC

VARIABLES
    fw,          \* provider: firewall rule name -> [exists, ranges]
    disk,        \* provider: the disk named opt.DiskName: [exists, cfg]
    inst,        \* provider: the instance named opt.BastionInstanceName
    status,      \* Bastion.Status in the status store: providerStatus, ingress, what
                 \* other controllers keep there, and whose copy of it is outdated
    opt,         \* what DetermineOptions derives from the (immutable) intent
    pass,        \* per worker: the locals of its Reconcile pass
    budget,      \* call failures, third-party changes and status updates of other
                 \* controllers so far
    hist,        \* bookkeeping: provider state when the ensure-sequence last
                 \* completed, and whether an insert was ever refused
    arg,         \* input of a pure-function evaluation
    ret          \* result of a pure-function evaluation

vars == <<fw, disk, inst, status, opt, pass, budget, hist, arg, ret>>

----------------------------------------------------------------------------
(* Bounds of the model *)

\* longest CIDR list, declared (opt.CIDRs) or found on a rule
MaxCIDRs == 2
\* provider / status-store calls that may fail in one behaviour
MaxFailures == 1
\* third-party changes of provider resources in one behaviour
MaxInterference == 1
\* most network interfaces of an instance handed to getInstanceEndpoints
MaxNICs == 2
\* most access configs of a network interface
MaxACs == 2
\* status updates of other controllers in one behaviour
MaxStatusUpdates == 4

(* Program constants *)

\* mutant: the delay is given in milliseconds
RequeueAfterSeconds_millis == 5 \div 1000

\* RequeueAfter: 5 * time.Second
RequeueAfterSeconds == 5

\* retry.DefaultBackoff: the attempts TryUpdateStatus makes before it gives up
DefaultBackoffSteps == 4

----------------------------------------------------------------------------
(* Values *)

CIDR == {"A", "B"}

RECURSIVE SeqsUpTo(_, _)
SeqsUpTo(S, n) ==
    IF n = 0 THEN {<<>>}
    ELSE LET shorter == SeqsUpTo(S, n - 1)
         IN  shorter \cup {Append(s, x) : s \in shorter, x \in S}

CIDRLists == SeqsUpTo(CIDR, MaxCIDRs)

BastionInstanceName == "bastion"
InternalIP == "10.0.0.5"
ExternalIP == "34.1.2.3"

\* *corev1.LoadBalancerIngress
NilIngress == [nil |-> TRUE, Hostname |-> "", IP |-> ""]
Ingress(hostname, ip) == [nil |-> FALSE, Hostname |-> hostname, IP |-> ip]

\* *bastionEndpoints
NilEndpoints == [nil |-> TRUE, private |-> NilIngress, public |-> NilIngress]
Endpoints(private, public) == [nil |-> FALSE, private |-> private, public |-> public]

\* *compute.Instance
NilInstance == [nil |-> TRUE, Name |-> "", Status |-> "", NetworkInterfaces |-> <<>>]
Instance(name, st, nics) ==
    [nil |-> FALSE, Name |-> name, Status |-> st, NetworkInterfaces |-> nics]
AccessConfig(natIP) == [NatIP |-> natIP]
NetworkInterface(ip, acs) == [NetworkIP |-> ip, AccessConfigs |-> acs]

\* *string
NilString == [nil |-> TRUE, s |-> ""]
StringPtr(str) == [nil |-> FALSE, s |-> str]

----------------------------------------------------------------------------
(* Pure functions of actuator_reconcile.go *)

\* mutant: only a hostname makes an ingress ready
IngressReady_hostnameOnly(ingress) ==
    ~ingress.nil /\ ingress.Hostname # ""

\* mutant: a hostname alone does not make an ingress ready
IngressReady_ipOnly(ingress) ==
    ~ingress.nil /\ ingress.IP # ""

\* IngressReady: ingress != nil && (ingress.Hostname != "" || ingress.IP != "")
IngressReady(ingress) ==
    ~ingress.nil /\ (ingress.Hostname # "" \/ ingress.IP # "")

\* mutant: any endpoints value counts as ready
Ready_nonNil(be) ==
    ~be.nil

\* bastionEndpoints.Ready: be != nil && IngressReady(be.private) && IngressReady(be.public)
Ready(be) ==
    ~be.nil /\ IngressReady(be.private) /\ IngressReady(be.public)

\* mutant: the hostname is dropped
addressToIngress_noHostname(dnsName, ipAddress) ==
    IF ipAddress.nil /\ dnsName.nil
    THEN NilIngress
    ELSE Ingress("", IF ipAddress.nil THEN "" ELSE ipAddress.s)

\* mutant: an empty string counts like a nil pointer
addressToIngress_emptyIsNil(dnsName, ipAddress) ==
    IF (ipAddress.nil \/ ipAddress.s = "") /\ (dnsName.nil \/ dnsName.s = "")
    THEN NilIngress
    ELSE Ingress(IF dnsName.nil THEN "" ELSE dnsName.s,
                 IF ipAddress.nil THEN "" ELSE ipAddress.s)

\* addressToIngress: nil when both arguments are nil, else an ingress carrying
\* whichever of the two is given
addressToIngress(dnsName, ipAddress) ==
    IF ipAddress.nil /\ dnsName.nil
    THEN NilIngress
    ELSE Ingress(IF dnsName.nil THEN "" ELSE dnsName.s,
                 IF ipAddress.nil THEN "" ELSE ipAddress.s)

ErrNone == ""
ErrNilInstance == "compute instance can't be nil"
ErrNotRunning == "instance not running"
ErrNoNetworkInterfaces == "no network interfaces found"
ErrNoAccessConfig == "no access config found for network interface"

\* mutant: an instance that is not RUNNING is resolved like a running one
getInstanceEndpoints_anyStatus(instance) ==
    IF instance.nil
    THEN [endpoints |-> NilEndpoints, err |-> ErrNilInstance]
    ELSE IF Len(instance.NetworkInterfaces) = 0
    THEN [endpoints |-> NilEndpoints, err |-> ErrNoNetworkInterfaces]
    ELSE IF Len(instance.NetworkInterfaces[1].AccessConfigs) = 0
    THEN [endpoints |-> NilEndpoints, err |-> ErrNoAccessConfig]
    ELSE [endpoints |->
            Endpoints(addressToIngress(StringPtr(instance.Name),
                                       StringPtr(instance.NetworkInterfaces[1].NetworkIP)),
                      addressToIngress(NilString,
                                       StringPtr(instance.NetworkInterfaces[1].AccessConfigs[1].NatIP))),
          err |-> ErrNone]

\* mutant: a missing access config leaves the public endpoint nil instead of failing
getInstanceEndpoints_noAccessConfigOK(instance) ==
    IF instance.nil
    THEN [endpoints |-> NilEndpoints, err |-> ErrNilInstance]
    ELSE IF instance.Status # "RUNNING"
    THEN [endpoints |-> NilEndpoints, err |-> ErrNotRunning]
    ELSE IF Len(instance.NetworkInterfaces) = 0
    THEN [endpoints |-> NilEndpoints, err |-> ErrNoNetworkInterfaces]
    ELSE [endpoints |->
            Endpoints(addressToIngress(StringPtr(instance.Name),
                                       StringPtr(instance.NetworkInterfaces[1].NetworkIP)),
                      IF Len(instance.NetworkInterfaces[1].AccessConfigs) = 0
                      THEN NilIngress
                      ELSE addressToIngress(NilString,
                                       StringPtr(instance.NetworkInterfaces[1].AccessConfigs[1].NatIP))),
          err |-> ErrNone]

\* mutant: the private endpoint is built from the internal IP alone
getInstanceEndpoints_privateWithoutName(instance) ==
    IF instance.nil
    THEN [endpoints |-> NilEndpoints, err |-> ErrNilInstance]
    ELSE IF instance.Status # "RUNNING"
    THEN [endpoints |-> NilEndpoints, err |-> ErrNotRunning]
    ELSE IF Len(instance.NetworkInterfaces) = 0
    THEN [endpoints |-> NilEndpoints, err |-> ErrNoNetworkInterfaces]
    ELSE IF Len(instance.NetworkInterfaces[1].AccessConfigs) = 0
    THEN [endpoints |-> NilEndpoints, err |-> ErrNoAccessConfig]
    ELSE [endpoints |->
            Endpoints(addressToIngress(NilString,
                                       StringPtr(instance.NetworkInterfaces[1].NetworkIP)),
                      addressToIngress(NilString,
                                       StringPtr(instance.NetworkInterfaces[1].AccessConfigs[1].NatIP))),
          err |-> ErrNone]

\* getInstanceEndpoints: the (endpoints, error) pair for an instance
getInstanceEndpoints(instance) ==
    IF instance.nil
    THEN [endpoints |-> NilEndpoints, err |-> ErrNilInstance]
    ELSE IF instance.Status # "RUNNING"
    THEN [endpoints |-> NilEndpoints, err |-> ErrNotRunning]
    ELSE IF Len(instance.NetworkInterfaces) = 0
    THEN [endpoints |-> NilEndpoints, err |-> ErrNoNetworkInterfaces]
    ELSE IF Len(instance.NetworkInterfaces[1].AccessConfigs) = 0
    THEN [endpoints |-> NilEndpoints, err |-> ErrNoAccessConfig]
    ELSE [endpoints |->
            \* internalIP := &networkInterfaces[0].NetworkIP
            \* externalIP := &networkInterfaces[0].AccessConfigs[0].NatIP
            Endpoints(addressToIngress(StringPtr(instance.Name),
                                       StringPtr(instance.NetworkInterfaces[1].NetworkIP)),
                      addressToIngress(NilString,
                                       StringPtr(instance.NetworkInterfaces[1].AccessConfigs[1].NatIP))),
          err |-> ErrNone]

----------------------------------------------------------------------------
(* The cloud provider and the resource descriptors *)

Workers == {1, 2}

IngressAllowSSHName == "ingress-allow-ssh"
EgressDenyAllName == "egress-deny-all"
EgressAllowOnlyName == "egress-allow-only"

\* firewallList := {IngressAllowSSH(opt), EgressDenyAll(opt), EgressAllowOnly(opt)}
firewallList == <<IngressAllowSSHName, EgressDenyAllName, EgressAllowOnlyName>>
FirewallNames == {firewallList[i] : i \in 1..Len(firewallList)}

AbsentRule == [exists |-> FALSE, ranges |-> <<>>]
Rule(ranges) == [exists |-> TRUE, ranges |-> ranges]

\* the range list of the descriptor built for a rule: the declared CIDRs for
\* the ingress rule, a fixed list for the egress rules
EgressRanges == <<"0.0.0.0/0">>
DriftedEgressRanges == <<"A">>
FirewallDescriptor(name, o) ==
    IF name = IngressAllowSSHName THEN Rule(o.CIDRs) ELSE Rule(EgressRanges)

AbsentDisk == [exists |-> FALSE, cfg |-> ""]
\* diskDefine(opt.Zone, opt.DiskName)
diskDefine == [exists |-> TRUE, cfg |-> "Gardenctl Bastion disk"]
ForeignDisk == [exists |-> TRUE, cfg |-> "foreign"]

\* computeInstanceDefine as the provider stores it: one network interface with one
\* access config ("External NAT"), no external address yet, and being provisioned
computeInstanceDefine ==
    Instance(BastionInstanceName, "PROVISIONING",
             <<NetworkInterface(InternalIP, <<AccessConfig("")>>)>>)

\* the instance once it runs and has its external address
ReadyInstance ==
    Instance(BastionInstanceName, "RUNNING",
             <<NetworkInterface(InternalIP, <<AccessConfig(ExternalIP)>>)>>)

DefaultZone == "zone-a"

NoRules == [n \in FirewallNames |-> AbsentRule]

\* the resources of a bastion, by name
DiskName == "disk"
Resources == FirewallNames \cup {DiskName, BastionInstanceName}

\* what the ensure-sequence, run without interruption from the present provider
\* state, leaves behind: every rule, the disk and the instance, each created from
\* its descriptor if absent and kept otherwise, the ingress rule with the
\* declared CIDRs
EnsureGoal ==
    [fw |-> [n \in FirewallNames |->
               IF fw[n].exists /\ n # IngressAllowSSHName
               THEN fw[n] ELSE FirewallDescriptor(n, opt)],
     disk |-> IF disk.exists THEN disk ELSE diskDefine,
     instKept |-> ~inst.nil]
NoGoal == [fw |-> NoRules, disk |-> AbsentDisk, instKept |-> FALSE]

----------------------------------------------------------------------------
(* The status store *)

\* the Bastion's status as a client reads and writes it
NoObject == [providerStatus |-> "", ingress |-> NilIngress, other |-> 0]
Object(s) == [providerStatus |-> s.providerStatus, ingress |-> s.ingress, other |-> s.other]

NoStatus == [providerStatus |-> "", ingress |-> NilIngress, other |-> 0, stale |-> {}]

----------------------------------------------------------------------------
(* Locals of a pass, of Reconcile or of Delete (op), again telling whether the
   pass before it was a Delete that succeeded; obj and attempt are those of the status update in
   progress: the copy of the status it read and the attempts that met a
   conflict; the rest from faulted on is bookkeeping: whether a call failure was
   injected, the published endpoint and the rules when the pass started, whether
   no other pass overlapped it, whether an insert had been refused before it
   started, whether the pass before it was cut short, what the ensure-sequence
   is to reach, and how often the worker has created each resource on the way *)

IdlePass ==
    [pc |-> "idle", op |-> "", again |-> FALSE, Zone |-> "", item |-> 1,
     instance |-> NilInstance, endpoints |-> NilEndpoints,
     verdict |-> "", RequeueAfter |-> 0, err |-> ErrNone,
     obj |-> NoObject, attempt |-> 0,
     calls |-> <<>>, fwOK |-> FALSE, diskOK |-> FALSE, ensured |-> FALSE,
     resolved |-> FALSE,
     faulted |-> FALSE, ingress0 |-> NilIngress, fw0 |-> NoRules, solo |-> TRUE,
     afterConflict |-> FALSE,
     aborted |-> FALSE, goal |-> NoGoal, created |-> [r \in Resources |-> 0]]

Running(p) == pass[p].pc \notin {"idle", "done"}

\* the last pass of the worker was ended by a failing call within the ensure-sequence
\* or before it
CutShort(p) == pass[p].faulted /\ ~pass[p].ensured

CanFail == budget.failures < MaxFailures
CanInterfere == budget.interference < MaxInterference

\* the pass goes to the next call
Goto(p, label, call) ==
    [pass[p] EXCEPT !.pc = label,
                    !.calls = IF call = "" THEN @ ELSE Append(@, call)]

\* the pass returns with a verdict
Return(p, verdict, err, call) ==
    [pass[p] EXCEPT !.pc = "done", !.verdict = verdict, !.err = err,
                    !.calls = IF call = "" THEN @ ELSE Append(@, call)]

\* the same, the error being a failure injected into the call
Fault(p, err, call) ==
    [Return(p, "Error", err, call) EXCEPT !.faulted = TRUE]

Spend(what) == [budget EXCEPT ![what] = @ + 1]

\* the workers, other than p, that hold a copy of the status they have yet to write
Holders(p) ==
    {q \in Workers \ {p} : pass[q].pc \in {"updateProviderStatus", "updateIngress"}}

\* the store takes a new status; the copies others hold are outdated from then
\* on, unless the write changed nothing
Stored(p, new) ==
    [providerStatus |-> new.providerStatus, ingress |-> new.ingress, other |-> new.other,
     stale |-> IF new = Object(status) THEN status.stale
               ELSE status.stale \cup Holders(p)]

\* the store refuses the write of a copy that is outdated
Conflict(p) == p \in status.stale

\* TryUpdateStatus after an attempt that met a conflict: read again and apply
\* the mutation again, unless the attempts are used up
Retry(p, label, err, call) ==
    IF pass[p].attempt + 1 < DefaultBackoffSteps
    THEN [Goto(p, label, call) EXCEPT !.attempt = @ + 1, !.obj = NoObject]
    ELSE [Return(p, "Error", err, call) EXCEPT !.attempt = @ + 1]

ErrConflict == "status update conflict"

Snapshot == [fw |-> fw, disk |-> disk, inst |-> inst]
NoSnapshot ==
    [fw |-> NoRules, disk |-> AbsentDisk, inst |-> NilInstance]

NoHistory ==
    [valid |-> FALSE, prev |-> NoSnapshot, has |-> FALSE, quiet |-> FALSE,
     last |-> NoSnapshot, conflict |-> FALSE]

\* bookkeeping when something other than this pass changes the provider state:
\* what was recorded of the provider state is void
Disturbed == [NoHistory EXCEPT !.conflict = hist.conflict]
\* bookkeeping when the provider refuses an insert because the name is taken
Refused == [hist EXCEPT !.conflict = TRUE]
\* bookkeeping when the provider has created a resource for the pass
Created(rec, name) == [rec EXCEPT !.created[name] = @ + 1]

----------------------------------------------------------------------------
(* Reconcile, one action per call *)

\* the scheduler invokes Reconcile
Start(p) ==
    /\ ~Running(p)
    /\ pass' = [q \in Workers |->
                 IF q = p
                 THEN [IdlePass EXCEPT !.pc = "getServiceAccount",
                                       !.op = "Reconcile",
                                       \* when the previous pass of this worker was
                                       \* cut short by a failing call, what the
                                       \* sequence was to reach then is what it is
                                       \* to reach now
                                       !.aborted = CutShort(p),
                                       !.goal = IF CutShort(p)
                                                THEN pass[p].goal ELSE EnsureGoal,
                                       !.created = IF CutShort(p)
                                                   THEN pass[p].created ELSE @,
                                       !.ingress0 = status.ingress,
                                       !.fw0 = fw,
                                       !.solo = \A r \in Workers \ {p} : ~Running(r),
                                       !.afterConflict = hist.conflict]
                 ELSE [pass[q] EXCEPT !.solo = @ /\ ~Running(q)]]
    \* the previous pass of this worker completed the ensure-sequence and nothing
    \* else has touched the provider since
    /\ hist' = [hist EXCEPT !.valid = pass[p].ensured /\ hist.has /\ hist.quiet,
                            !.prev = hist.last]
    /\ UNCHANGED <<fw, disk, inst, status, opt, budget, arg, ret>>

\* serviceAccount, err := getServiceAccount(ctx, a, bastion)
GetServiceAccount(p) ==
    /\ pass[p].pc = "getServiceAccount"
    /\ \/ /\ pass' = [pass EXCEPT ![p] = Goto(p, "createGCPClient", "")]
          /\ UNCHANGED budget
       \/ /\ CanFail
          /\ budget' = Spend("failures")
          /\ pass' = [pass EXCEPT ![p] =
                        Fault(p, "failed to get service account", "")]
    /\ UNCHANGED <<fw, disk, inst, status, opt, hist, arg, ret>>

\* gcpClient, err := createGCPClient(ctx, serviceAccount)
CreateGCPClient(p) ==
    /\ pass[p].pc = "createGCPClient"
    /\ \/ /\ pass' = [pass EXCEPT ![p] = Goto(p, "DetermineOptions", "")]
          /\ UNCHANGED budget
       \/ /\ CanFail
          /\ budget' = Spend("failures")
          /\ pass' = [pass EXCEPT ![p] = Fault(p, "failed to create GCP client", "")]
    /\ UNCHANGED <<fw, disk, inst, status, opt, hist, arg, ret>>

\* mutant: the zone is queried whether or not one is declared
DetermineOptions_alwaysQueries(p) ==
    /\ pass[p].pc = "DetermineOptions"
    /\ pass' = [pass EXCEPT ![p] =
                  IF ~opt.valid
                  THEN Return(p, "Error", "failed to determine Options", "")
                  ELSE [pass[p] EXCEPT !.Zone = opt.Zone,
                                       !.pc = "getDefaultGCPZone"]]
    /\ UNCHANGED <<fw, disk, inst, status, opt, budget, hist, arg, ret>>

\* opt, err := DetermineOptions(bastion, cluster, serviceAccount.ProjectID), then
\* the test opt.Zone == ""
DetermineOptions(p) ==
    /\ pass[p].pc = "DetermineOptions"
    /\ pass' = [pass EXCEPT ![p] =
                  IF ~opt.valid
                  THEN Return(p, "Error", "failed to determine Options", "")
                  ELSE [pass[p] EXCEPT !.Zone = opt.Zone,
                                       !.pc = IF opt.Zone = ""
                                              THEN "getDefaultGCPZone"
                                              ELSE "storeZone"]]
    /\ UNCHANGED <<fw, disk, inst, status, opt, budget, hist, arg, ret>>

ErrZoneQuery == "failed to get default zone"

\* opt.Zone, err = getDefaultGCPZone(ctx, gcpClient, opt, region)
GetDefaultGCPZone(p) ==
    /\ pass[p].pc = "getDefaultGCPZone"
    /\ \/ /\ pass' = [pass EXCEPT ![p] =
                        [Goto(p, "storeZone", "getDefaultGCPZone") EXCEPT !.Zone = DefaultZone]]
          /\ UNCHANGED budget
       \/ /\ CanFail
          /\ budget' = Spend("failures")
          /\ pass' = [pass EXCEPT ![p] = Fault(p, ErrZoneQuery, "getDefaultGCPZone")]
    /\ UNCHANGED <<fw, disk, inst, status, opt, hist, arg, ret>>

\* controller.TryUpdateStatus, an attempt's read of the Bastion
GetStatus(p) ==
    /\ pass[p].pc \in {"storeZone", "publish"}
    /\ \/ /\ pass' = [pass EXCEPT ![p] =
                        [Goto(p, IF pass[p].pc = "storeZone"
                                 THEN "updateProviderStatus" ELSE "updateIngress",
                              "getStatus")
                           EXCEPT !.obj = Object(status)]]
          /\ status' = [status EXCEPT !.stale = @ \ {p}]
          /\ UNCHANGED budget
       \/ /\ CanFail
          /\ budget' = Spend("failures")
          /\ pass' = [pass EXCEPT ![p] =
                        Fault(p, IF pass[p].pc = "storeZone"
                                 THEN "failed to store status.providerStatus for zone"
                                 ELSE "failed to get status",
                              "getStatus")]
          /\ UNCHANGED status
    /\ UNCHANGED <<fw, disk, inst, opt, hist, arg, ret>>

\* mutant: the status read is written back whatever has happened to it since
StoreZone_overwrite(p) ==
    /\ pass[p].pc = "updateProviderStatus"
    /\ \/ /\ status' = Stored(p, [pass[p].obj EXCEPT !.providerStatus = pass[p].Zone])
          /\ pass' = [pass EXCEPT ![p] =
                        [Goto(p, "fwGet", "updateProviderStatus")
                           EXCEPT !.obj = NoObject, !.attempt = 0]]
          /\ UNCHANGED budget
       \/ /\ CanFail
          /\ budget' = Spend("failures")
          /\ pass' = [pass EXCEPT ![p] =
                        Fault(p, "failed to store status.providerStatus for zone",
                              "updateProviderStatus")]
          /\ UNCHANGED status
    /\ UNCHANGED <<fw, disk, inst, opt, hist, arg, ret>>

\* mutant: the error of the status update is passed over
StoreZone_errorIgnored(p) ==
    /\ pass[p].pc = "updateProviderStatus"
    /\ \/ /\ ~Conflict(p)
          /\ status' = Stored(p, [pass[p].obj EXCEPT !.providerStatus = pass[p].Zone])
          /\ pass' = [pass EXCEPT ![p] =
                        [Goto(p, "fwGet", "updateProviderStatus")
                           EXCEPT !.obj = NoObject, !.attempt = 0]]
          /\ UNCHANGED budget
       \/ /\ Conflict(p)
          /\ pass' = [pass EXCEPT ![p] =
                        Retry(p, "storeZone",
                              "failed to store status.providerStatus for zone",
                              "updateProviderStatus")]
          /\ UNCHANGED <<status, budget>>
       \/ /\ CanFail
          /\ budget' = Spend("failures")
          /\ pass' = [pass EXCEPT ![p] =
                        [Goto(p, "fwGet", "updateProviderStatus")
                           EXCEPT !.obj = NoObject, !.faulted = TRUE]]
          /\ UNCHANGED status
    /\ UNCHANGED <<fw, disk, inst, opt, hist, arg, ret>>

\* controller.TryUpdateStatus(..., bastion.Status.ProviderStatus = {zone}), an
\* attempt's write
StoreZone(p) ==
    /\ pass[p].pc = "updateProviderStatus"
    /\ \/ /\ ~Conflict(p)
          /\ status' = Stored(p, [pass[p].obj EXCEPT !.providerStatus = pass[p].Zone])
          /\ pass' = [pass EXCEPT ![p] =
                        [Goto(p, "fwGet", "updateProviderStatus")
                           EXCEPT !.obj = NoObject, !.attempt = 0]]
          /\ UNCHANGED budget
       \/ /\ Conflict(p)
          /\ pass' = [pass EXCEPT ![p] =
                        Retry(p, "storeZone",
                              "failed to store status.providerStatus for zone",
                              "updateProviderStatus")]
          /\ UNCHANGED <<status, budget>>
       \/ /\ CanFail
          /\ budget' = Spend("failures")
          /\ pass' = [pass EXCEPT ![p] =
                        Fault(p, "failed to store status.providerStatus for zone",
                              "updateProviderStatus")]
          /\ UNCHANGED status
    /\ UNCHANGED <<fw, disk, inst, opt, hist, arg, ret>>

----------------------------------------------------------------------------
(* ensureFirewallRules *)

\* where the loop over firewallList goes after item i
AfterItem(p) ==
    IF pass[p].item < Len(firewallList)
    THEN [pass[p] EXCEPT !.pc = "fwGet", !.item = @ + 1]
    ELSE [pass[p] EXCEPT !.pc = "getFirewallRule"]

Logged(rec, call) == [rec EXCEPT !.calls = Append(@, call)]

\* createFirewallRuleIfNotExist(item), its fetch by name
FwGet(p) ==
    /\ pass[p].pc = "fwGet"
    /\ LET name == firewallList[pass[p].item] IN
       \/ /\ pass' = [pass EXCEPT ![p] =
                        IF fw[name].exists
                        THEN Logged(AfterItem(p), "getFirewall")
                        ELSE Goto(p, "fwInsert", "getFirewall")]
          /\ UNCHANGED budget
       \/ /\ CanFail
          /\ budget' = Spend("failures")
          /\ pass' = [pass EXCEPT ![p] =
                        Fault(p, "could not get firewall rule", "getFirewall")]
    /\ UNCHANGED <<fw, disk, inst, status, opt, hist, arg, ret>>

\* createFirewallRuleIfNotExist(item), its create when the rule is absent
FwInsert(p) ==
    /\ pass[p].pc = "fwInsert"
    /\ LET name == firewallList[pass[p].item] IN
       \/ /\ ~fw[name].exists
          /\ fw' = [fw EXCEPT ![name] = FirewallDescriptor(name, opt)]
          /\ pass' = [pass EXCEPT ![p] =
                        Created(Logged(AfterItem(p), "insertFirewall"), name)]
          /\ UNCHANGED <<budget, hist>>
       \/ \* the provider refuses a second rule of the same name
          /\ fw[name].exists
          /\ pass' = [pass EXCEPT ![p] =
                        Return(p, "Error", "could not create firewall rule", "insertFirewall")]
          /\ hist' = Refused
          /\ UNCHANGED <<fw, budget>>
       \/ /\ CanFail
          /\ budget' = Spend("failures")
          /\ pass' = [pass EXCEPT ![p] =
                        Fault(p, "could not create firewall rule", "insertFirewall")]
          /\ UNCHANGED <<fw, hist>>
    /\ UNCHANGED <<disk, inst, status, opt, arg, ret>>

\* mutant: the slices are compared by identity, which never holds
reflectDeepEqual_never(currentCIDRs, wantedCIDRs) ==
    FALSE

\* mutant: the CIDR lists are compared as sets
reflectDeepEqual_asSets(currentCIDRs, wantedCIDRs) ==
    {currentCIDRs[i] : i \in 1..Len(currentCIDRs)}
        = {wantedCIDRs[i] : i \in 1..Len(wantedCIDRs)}

\* mutant: the CIDR lists are compared after sorting, that is, as bags
reflectDeepEqual_anyOrder(currentCIDRs, wantedCIDRs) ==
    /\ Len(currentCIDRs) = Len(wantedCIDRs)
    /\ \A i \in 1..Len(wantedCIDRs) :
          Cardinality({j \in 1..Len(currentCIDRs) : currentCIDRs[j] = wantedCIDRs[i]})
            = Cardinality({j \in 1..Len(wantedCIDRs) : wantedCIDRs[j] = wantedCIDRs[i]})

\* reflect.DeepEqual(currentCIDRs, wantedCIDRs) on two string slices
reflectDeepEqual(currentCIDRs, wantedCIDRs) ==
    currentCIDRs = wantedCIDRs

\* mutant: an error of the fetch is passed over and the next stage is entered
GetFirewallRule_errorIgnored(p) ==
    /\ pass[p].pc = "getFirewallRule"
    /\ \/ /\ pass' = [pass EXCEPT ![p] =
                IF ~fw[IngressAllowSSHName].exists
                THEN Return(p, "Error", "could not get firewall rule", "getFirewall")
                ELSE IF ~reflectDeepEqual(fw[IngressAllowSSHName].ranges, opt.CIDRs)
                THEN Goto(p, "patchFirewallRule", "getFirewall")
                ELSE [Goto(p, "getDisk", "getFirewall") EXCEPT !.fwOK = TRUE]]
          /\ UNCHANGED budget
       \/ /\ CanFail
          /\ budget' = Spend("failures")
          /\ pass' = [pass EXCEPT ![p] =
                        [Goto(p, "getDisk", "getFirewall") EXCEPT !.faulted = TRUE]]
    /\ UNCHANGED <<fw, disk, inst, status, opt, hist, arg, ret>>

\* firewall, err := getFirewallRule(IngressAllowSSH(opt).Name), then the
\* comparison of firewall.SourceRanges with opt.CIDRs
GetFirewallRule(p) ==
    /\ pass[p].pc = "getFirewallRule"
    /\ \/ /\ pass' = [pass EXCEPT ![p] =
                IF ~fw[IngressAllowSSHName].exists
                THEN Return(p, "Error", "could not get firewall rule", "getFirewall")
                ELSE IF ~reflectDeepEqual(fw[IngressAllowSSHName].ranges, opt.CIDRs)
                THEN Goto(p, "patchFirewallRule", "getFirewall")
                ELSE [Goto(p, "getDisk", "getFirewall") EXCEPT !.fwOK = TRUE]]
          /\ UNCHANGED budget
       \/ /\ CanFail
          /\ budget' = Spend("failures")
          /\ pass' = [pass EXCEPT ![p] =
                        Fault(p, "could not get firewall rule", "getFirewall")]
    /\ UNCHANGED <<fw, disk, inst, status, opt, hist, arg, ret>>

\* return patchFirewallRule(IngressAllowSSH(opt).Name): the rule's source ranges
\* become the declared CIDRs
PatchFirewallRule(p) ==
    /\ pass[p].pc = "patchFirewallRule"
    /\ \/ /\ fw[IngressAllowSSHName].exists
          /\ fw' = [fw EXCEPT ![IngressAllowSSHName].ranges = opt.CIDRs]
          /\ pass' = [pass EXCEPT ![p] =
                        [Goto(p, "getDisk", "patchFirewall") EXCEPT !.fwOK = TRUE]]
          /\ UNCHANGED budget
       \/ \* the rule disappeared since it was fetched
          /\ ~fw[IngressAllowSSHName].exists
          /\ pass' = [pass EXCEPT ![p] =
                        Return(p, "Error", "could not patch firewall rule", "patchFirewall")]
          /\ UNCHANGED <<fw, budget>>
       \/ /\ CanFail
          /\ budget' = Spend("failures")
          /\ pass' = [pass EXCEPT ![p] =
                        Fault(p, "could not patch firewall rule", "patchFirewall")]
          /\ UNCHANGED fw
    /\ UNCHANGED <<disk, inst, status, opt, hist, arg, ret>>

----------------------------------------------------------------------------
(* ensureDisk *)

\* mutant: only the error is tested, so an existing disk is created again
GetDisk_alwaysInsert(p) ==
    /\ pass[p].pc = "getDisk"
    /\ \/ /\ pass' = [pass EXCEPT ![p] = Goto(p, "insertDisk", "getDisk")]
          /\ UNCHANGED budget
       \/ /\ CanFail
          /\ budget' = Spend("failures")
          /\ pass' = [pass EXCEPT ![p] = Fault(p, "could not get disk", "getDisk")]
    /\ UNCHANGED <<fw, disk, inst, status, opt, hist, arg, ret>>

\* mutant: a disk that is found is brought to the configuration of the descriptor
GetDisk_reconfigures(p) ==
    /\ pass[p].pc = "getDisk"
    /\ \/ /\ pass' = [pass EXCEPT ![p] =
                        IF disk.exists
                        THEN [Goto(p, "getInstance", "getDisk") EXCEPT !.diskOK = TRUE]
                        ELSE Goto(p, "insertDisk", "getDisk")]
          /\ disk' = IF disk.exists THEN diskDefine ELSE disk
          /\ UNCHANGED budget
       \/ /\ CanFail
          /\ budget' = Spend("failures")
          /\ pass' = [pass EXCEPT ![p] = Fault(p, "could not get disk", "getDisk")]
          /\ UNCHANGED disk
    /\ UNCHANGED <<fw, inst, status, opt, hist, arg, ret>>

\* disk, err := getDisk(ctx, gcpclient, opt); if disk != nil || err != nil { return err }
GetDisk(p) ==
    /\ pass[p].pc = "getDisk"
    /\ \/ /\ pass' = [pass EXCEPT ![p] =
                        IF disk.exists
                        THEN [Goto(p, "getInstance", "getDisk") EXCEPT !.diskOK = TRUE]
                        ELSE Goto(p, "insertDisk", "getDisk")]
          /\ UNCHANGED budget
       \/ /\ CanFail
          /\ budget' = Spend("failures")
          /\ pass' = [pass EXCEPT ![p] = Fault(p, "could not get disk", "getDisk")]
    /\ UNCHANGED <<fw, disk, inst, status, opt, hist, arg, ret>>

\* _, err = gcpclient.Disks().Insert(opt.ProjectID, opt.Zone, disk).Do()
InsertDisk(p) ==
    /\ pass[p].pc = "insertDisk"
    /\ \/ /\ ~disk.exists
          /\ disk' = diskDefine
          /\ pass' = [pass EXCEPT ![p] =
                        Created(Goto(p, "regetDisk", "insertDisk"), DiskName)]
          /\ UNCHANGED <<budget, hist>>
       \/ \* the provider refuses a second disk of the same name
          /\ disk.exists
          /\ pass' = [pass EXCEPT ![p] =
                Return(p, "Error", "failed to create compute instance disk", "insertDisk")]
          /\ hist' = Refused
          /\ UNCHANGED <<disk, budget>>
       \/ /\ CanFail
          /\ budget' = Spend("failures")
          /\ pass' = [pass EXCEPT ![p] =
                Fault(p, "failed to create compute instance disk", "insertDisk")]
          /\ UNCHANGED <<disk, hist>>
    /\ UNCHANGED <<fw, inst, status, opt, arg, ret>>

\* mutant: the insert having succeeded, the disk is taken to be there
RegetDisk_trustsInsert(p) ==
    /\ pass[p].pc = "regetDisk"
    /\ \/ /\ pass' = [pass EXCEPT ![p] =
                [Goto(p, "getInstance", "getDisk") EXCEPT !.diskOK = TRUE]]
          /\ UNCHANGED budget
       \/ /\ CanFail
          /\ budget' = Spend("failures")
          /\ pass' = [pass EXCEPT ![p] = Fault(p, "could not get disk", "getDisk")]
    /\ UNCHANGED <<fw, disk, inst, status, opt, hist, arg, ret>>

\* disk, err = getDisk(ctx, gcpclient, opt) after the insert
RegetDisk(p) ==
    /\ pass[p].pc = "regetDisk"
    /\ \/ /\ pass' = [pass EXCEPT ![p] =
                IF disk.exists
                THEN [Goto(p, "getInstance", "getDisk") EXCEPT !.diskOK = TRUE]
                ELSE Return(p, "Error", "failed to get (create) compute instance disk",
                            "getDisk")]
          /\ UNCHANGED budget
       \/ /\ CanFail
          /\ budget' = Spend("failures")
          /\ pass' = [pass EXCEPT ![p] = Fault(p, "could not get disk", "getDisk")]
    /\ UNCHANGED <<fw, disk, inst, status, opt, hist, arg, ret>>

----------------------------------------------------------------------------
(* ensureComputeInstance *)

\* ensureComputeInstance returns (instance, nil): the ensure-sequence is complete
Ensured(p, call) ==
    [Goto(p, "getInstanceEndpoints", call) EXCEPT !.instance = inst, !.ensured = TRUE]

Completed == [hist EXCEPT !.has = TRUE, !.quiet = TRUE, !.last = Snapshot]

\* mutant: only the error is tested, so an existing instance is created again
GetInstance_alwaysInsert(p) ==
    /\ pass[p].pc = "getInstance"
    /\ \/ /\ pass' = [pass EXCEPT ![p] = Goto(p, "insertInstance", "getInstance")]
          /\ UNCHANGED budget
       \/ /\ CanFail
          /\ budget' = Spend("failures")
          /\ pass' = [pass EXCEPT ![p] = Fault(p, "could not get instance", "getInstance")]
    /\ UNCHANGED <<fw, disk, inst, status, opt, hist, arg, ret>>

\* instance, err := getBastionInstance(ctx, gcpclient, opt);
\* if instance != nil || err != nil { return instance, err }
GetInstance(p) ==
    /\ pass[p].pc = "getInstance"
    /\ \/ /\ ~inst.nil
          /\ pass' = [pass EXCEPT ![p] = Ensured(p, "getInstance")]
          /\ hist' = Completed
          /\ UNCHANGED budget
       \/ /\ inst.nil
          /\ pass' = [pass EXCEPT ![p] = Goto(p, "insertInstance", "getInstance")]
          /\ UNCHANGED <<budget, hist>>
       \/ /\ CanFail
          /\ budget' = Spend("failures")
          /\ pass' = [pass EXCEPT ![p] = Fault(p, "could not get instance", "getInstance")]
          /\ UNCHANGED hist
    /\ UNCHANGED <<fw, disk, inst, status, opt, arg, ret>>

\* _, err = gcpclient.Instances().Insert(opt.ProjectID, opt.Zone, computeInstance).Do()
InsertInstance(p) ==
    /\ pass[p].pc = "insertInstance"
    /\ \/ /\ inst.nil
          /\ inst' = computeInstanceDefine
          /\ pass' = [pass EXCEPT ![p] =
                        Created(Goto(p, "regetInstance", "insertInstance"),
                                BastionInstanceName)]
          /\ UNCHANGED <<budget, hist>>
       \/ \* the provider refuses a second instance of the same name
          /\ ~inst.nil
          /\ pass' = [pass EXCEPT ![p] =
                Return(p, "Error", "failed to create bastion compute instance",
                       "insertInstance")]
          /\ hist' = Refused
          /\ UNCHANGED <<inst, budget>>
       \/ /\ CanFail
          /\ budget' = Spend("failures")
          /\ pass' = [pass EXCEPT ![p] =
                Fault(p, "failed to create bastion compute instance", "insertInstance")]
          /\ UNCHANGED <<inst, hist>>
    /\ UNCHANGED <<fw, disk, status, opt, arg, ret>>

\* instance, err = getBastionInstance(ctx, gcpclient, opt) after the insert
RegetInstance(p) ==
    /\ pass[p].pc = "regetInstance"
    /\ \/ /\ ~inst.nil
          /\ pass' = [pass EXCEPT ![p] = Ensured(p, "getInstance")]
          /\ hist' = Completed
          /\ UNCHANGED budget
       \/ /\ inst.nil
          /\ pass' = [pass EXCEPT ![p] =
                Return(p, "Error", "failed to get (create) bastion compute instance",
                       "getInstance")]
          /\ UNCHANGED <<budget, hist>>
       \/ /\ CanFail
          /\ budget' = Spend("failures")
          /\ pass' = [pass EXCEPT ![p] = Fault(p, "could not get instance", "getInstance")]
          /\ UNCHANGED hist
    /\ UNCHANGED <<fw, disk, inst, status, opt, arg, ret>>

----------------------------------------------------------------------------
(* The endpoint check and the publication of the endpoint *)

\* endpoints, err := getInstanceEndpoints(instance); if err != nil { return err };
\* if !endpoints.Ready() { return &ctrlerror.RequeueAfterError{...} }
ResolveEndpoints(p) ==
    /\ pass[p].pc = "getInstanceEndpoints"
    /\ LET r == getInstanceEndpoints(pass[p].instance)
           resolved == [pass[p] EXCEPT !.endpoints = r.endpoints, !.resolved = TRUE]
       IN  pass' = [pass EXCEPT ![p] =
              IF r.err # ErrNone
              THEN [resolved EXCEPT !.pc = "done", !.verdict = "Error", !.err = r.err]
              ELSE IF ~Ready(r.endpoints)
              THEN [resolved EXCEPT
                      !.pc = "done", !.verdict = "RequeueAfter",
                      !.RequeueAfter = RequeueAfterSeconds,
                      !.err = "bastion instance has no public/private endpoints yet"]
              ELSE [resolved EXCEPT !.pc = "publish"]]
    /\ UNCHANGED <<fw, disk, inst, status, opt, budget, hist, arg, ret>>

ErrNilDereference == "invalid memory address or nil pointer dereference"

\* return controller.TryUpdateStatus(..., bastion.Status.Ingress = *endpoints.public)
PublishIngress(p) ==
    /\ pass[p].pc = "updateIngress"
    /\ \/ \* *endpoints.public on a nil pointer
          /\ pass[p].endpoints.public.nil
          /\ pass' = [pass EXCEPT ![p] = Return(p, "Panic", ErrNilDereference, "")]
          /\ UNCHANGED <<status, budget>>
       \/ /\ ~pass[p].endpoints.public.nil
          /\ ~Conflict(p)
          /\ status' = Stored(p, [pass[p].obj EXCEPT !.ingress = pass[p].endpoints.public])
          /\ pass' = [pass EXCEPT ![p] = Return(p, "Success", ErrNone, "updateIngress")]
          /\ UNCHANGED budget
       \/ /\ Conflict(p)
          /\ pass' = [pass EXCEPT ![p] = Retry(p, "publish", ErrConflict, "updateIngress")]
          /\ UNCHANGED <<status, budget>>
       \/ /\ CanFail
          /\ budget' = Spend("failures")
          /\ pass' = [pass EXCEPT ![p] =
                        Fault(p, "failed to update status", "updateIngress")]
          /\ UNCHANGED status
    /\ UNCHANGED <<fw, disk, inst, opt, hist, arg, ret>>

----------------------------------------------------------------------------
(* Delete: the instance, the disk, then each firewall rule; a resource that is
   not found is passed over *)

\* the scheduler invokes Delete
StartDelete(p) ==
    /\ ~Running(p)
    /\ pass' = [pass EXCEPT ![p] =
                  [IdlePass EXCEPT !.pc = "deleteInstance",
                                   !.op = "Delete",
                                   !.again = /\ pass[p].op = "Delete"
                                             /\ pass[p].verdict = "Success",
                                   !.fw0 = fw]]
    /\ UNCHANGED <<fw, disk, inst, status, opt, budget, hist, arg, ret>>

\* remove the instance, ignoring not-found
DeleteInstance(p) ==
    /\ pass[p].pc = "deleteInstance"
    /\ \/ /\ inst' = NilInstance
          /\ pass' = [pass EXCEPT ![p] = Goto(p, "deleteDisk", "deleteInstance")]
          /\ hist' = IF inst.nil THEN hist ELSE Disturbed
          /\ UNCHANGED budget
       \/ /\ CanFail
          /\ budget' = Spend("failures")
          /\ pass' = [pass EXCEPT ![p] =
                        Fault(p, "failed to delete instance", "deleteInstance")]
          /\ UNCHANGED <<inst, hist>>
    /\ UNCHANGED <<fw, disk, status, opt, arg, ret>>

\* mutant: a disk that is not found is an error
DeleteDisk_notFoundIsError(p) ==
    /\ pass[p].pc = "deleteDisk"
    /\ \/ /\ disk' = AbsentDisk
          /\ pass' = [pass EXCEPT ![p] =
                        IF disk.exists
                        THEN Goto(p, "deleteFirewall", "deleteDisk")
                        ELSE Return(p, "Error", "failed to delete disk", "deleteDisk")]
          /\ hist' = IF disk.exists THEN Disturbed ELSE hist
          /\ UNCHANGED budget
       \/ /\ CanFail
          /\ budget' = Spend("failures")
          /\ pass' = [pass EXCEPT ![p] = Fault(p, "failed to delete disk", "deleteDisk")]
          /\ UNCHANGED <<disk, hist>>
    /\ UNCHANGED <<fw, inst, status, opt, arg, ret>>

\* remove the disk, ignoring not-found
DeleteDisk(p) ==
    /\ pass[p].pc = "deleteDisk"
    /\ \/ /\ disk' = AbsentDisk
          /\ pass' = [pass EXCEPT ![p] = Goto(p, "deleteFirewall", "deleteDisk")]
          /\ hist' = IF disk.exists THEN Disturbed ELSE hist
          /\ UNCHANGED budget
       \/ /\ CanFail
          /\ budget' = Spend("failures")
          /\ pass' = [pass EXCEPT ![p] = Fault(p, "failed to delete disk", "deleteDisk")]
          /\ UNCHANGED <<disk, hist>>
    /\ UNCHANGED <<fw, inst, status, opt, arg, ret>>

\* remove each firewall rule, ignoring not-found
DeleteFirewallRule(p) ==
    /\ pass[p].pc = "deleteFirewall"
    /\ LET name == firewallList[pass[p].item] IN
       \/ /\ fw' = [fw EXCEPT ![name] = AbsentRule]
          /\ pass' = [pass EXCEPT ![p] =
                        IF pass[p].item < Len(firewallList)
                        THEN [Goto(p, "deleteFirewall", "deleteFirewall")
                                EXCEPT !.item = @ + 1]
                        ELSE Return(p, "Success", ErrNone, "deleteFirewall")]
          /\ hist' = IF fw[name].exists THEN Disturbed ELSE hist
          /\ UNCHANGED budget
       \/ /\ CanFail
          /\ budget' = Spend("failures")
          /\ pass' = [pass EXCEPT ![p] =
                        Fault(p, "failed to delete firewall rule", "deleteFirewall")]
          /\ UNCHANGED <<fw, hist>>
    /\ UNCHANGED <<disk, inst, status, opt, arg, ret>>

StepDelete(p) ==
    \/ StartDelete(p)
    \/ DeleteInstance(p)
    \/ DeleteDisk(p)
    \/ DeleteFirewallRule(p)

----------------------------------------------------------------------------
(* The environment: the provider's own progress and third parties *)

\* the provider finishes provisioning the instance
ProviderStartsInstance ==
    /\ ~inst.nil
    /\ inst.Status = "PROVISIONING"
    /\ inst' = [inst EXCEPT !.Status = "RUNNING"]
    /\ hist' = Disturbed
    /\ UNCHANGED <<fw, disk, status, opt, pass, budget, arg, ret>>

\* the provider assigns the external address of the first access config
ProviderAssignsNatIP ==
    /\ ~inst.nil
    /\ Len(inst.NetworkInterfaces) > 0
    /\ Len(inst.NetworkInterfaces[1].AccessConfigs) > 0
    /\ inst.NetworkInterfaces[1].AccessConfigs[1].NatIP = ""
    /\ inst' = [inst EXCEPT !.NetworkInterfaces[1].AccessConfigs[1].NatIP = ExternalIP]
    /\ hist' = Disturbed
    /\ UNCHANGED <<fw, disk, status, opt, pass, budget, arg, ret>>

Progress ==
    \/ ProviderStartsInstance
    \/ ProviderAssignsNatIP

ThirdPartyDeletesDisk ==
    /\ CanInterfere
    /\ disk.exists
    /\ disk' = AbsentDisk
    /\ budget' = Spend("interference")
    /\ hist' = Disturbed
    /\ UNCHANGED <<fw, inst, status, opt, pass, arg, ret>>

ThirdPartyDeletesInstance ==
    /\ CanInterfere
    /\ ~inst.nil
    /\ inst' = NilInstance
    /\ budget' = Spend("interference")
    /\ hist' = Disturbed
    /\ UNCHANGED <<fw, disk, status, opt, pass, arg, ret>>

ThirdPartyChangesRule ==
    /\ CanInterfere
    /\ \E name \in FirewallNames :
         /\ fw[name].exists
         /\ \/ fw' = [fw EXCEPT ![name] = AbsentRule]
            \/ /\ fw[name].ranges # DriftedEgressRanges
               /\ fw' = [fw EXCEPT ![name].ranges = DriftedEgressRanges]
    /\ budget' = Spend("interference")
    /\ hist' = Disturbed
    /\ UNCHANGED <<disk, inst, status, opt, pass, arg, ret>>

ThirdParty ==
    \/ ThirdPartyDeletesDisk
    \/ ThirdPartyDeletesInstance
    \/ ThirdPartyChangesRule

\* another controller updates the Bastion's status, in a field Reconcile does not set
OtherControllerUpdatesStatus ==
    /\ budget.updates < MaxStatusUpdates
    /\ status' = Stored(0, [Object(status) EXCEPT !.other = @ + 1])
    /\ budget' = Spend("updates")
    /\ UNCHANGED <<fw, disk, inst, opt, pass, hist, arg, ret>>

----------------------------------------------------------------------------
(* Evaluation of the pure functions on given inputs *)

NoArg == [fn |-> "", instance |-> NilInstance, be |-> NilEndpoints]
NoRet == [done |-> FALSE, endpoints |-> NilEndpoints, err |-> ErrNone, ready |-> FALSE]

AccessConfigInputs == {AccessConfig(""), AccessConfig(ExternalIP)}
NetworkInterfaceInputs ==
    {NetworkInterface(ip, acs) :
        ip \in {"", InternalIP}, acs \in SeqsUpTo(AccessConfigInputs, MaxACs)}
InstanceInputs ==
    {NilInstance}
    \cup {Instance(name, st, nics) :
            name \in {"", BastionInstanceName},
            st \in {"RUNNING", "PROVISIONING", "TERMINATED"},
            nics \in SeqsUpTo(NetworkInterfaceInputs, MaxNICs)}

IngressInputs ==
    {NilIngress}
    \cup {Ingress(h, ip) : h \in {"", BastionInstanceName}, ip \in {"", InternalIP, ExternalIP}}
EndpointsInputs ==
    {NilEndpoints} \cup {Endpoints(pr, pu) : pr \in IngressInputs, pu \in IngressInputs}

\* endpoints, err := getInstanceEndpoints(instance), then endpoints.Ready()
EvalGetInstanceEndpoints ==
    /\ arg.fn = "getInstanceEndpoints"
    /\ ~ret.done
    /\ LET r == getInstanceEndpoints(arg.instance) IN
       ret' = [done |-> TRUE, endpoints |-> r.endpoints, err |-> r.err,
               ready |-> Ready(r.endpoints)]
    /\ UNCHANGED <<fw, disk, inst, status, opt, pass, budget, hist, arg>>

\* be.Ready(); the receiver is not changed, so it can be asked again
EvalReady ==
    /\ arg.fn = "Ready"
    /\ ret' = [done |-> TRUE, endpoints |-> arg.be, err |-> ErrNone,
               ready |-> Ready(arg.be)]
    /\ UNCHANGED <<fw, disk, inst, status, opt, pass, budget, hist, arg>>

----------------------------------------------------------------------------
(* Initial states *)

AllRules(rule) == [n \in FirewallNames |-> rule]

\* the instances a provider may hold under the bastion's name
InitialInstances ==
    {NilInstance, computeInstanceDefine}
    \cup {Instance(BastionInstanceName, "RUNNING", nics) :
            nics \in {<<>>,
                      <<NetworkInterface(InternalIP, <<>>)>>,
                      <<NetworkInterface("", <<>>)>>,
                      <<NetworkInterface(InternalIP, <<AccessConfig("")>>)>>,
                      <<NetworkInterface("", <<AccessConfig(ExternalIP)>>)>>,
                      <<NetworkInterface(InternalIP, <<AccessConfig(ExternalIP)>>)>>}}
    \cup {Instance(BastionInstanceName, "TERMINATED",
                   <<NetworkInterface(InternalIP, <<AccessConfig(ExternalIP)>>)>>)}

\* any state of the three rules: each absent or present, the ingress rule with
\* any list of source ranges
InitialRules ==
    {f \in [FirewallNames ->
              {AbsentRule} \cup {Rule(l) : l \in CIDRLists \cup {EgressRanges}}] :
        /\ f[IngressAllowSSHName].ranges \in CIDRLists
        /\ f[EgressDenyAllName] \in {AbsentRule, Rule(EgressRanges), Rule(DriftedEgressRanges)}
        /\ f[EgressAllowOnlyName] \in {AbsentRule, Rule(EgressRanges)}}

InitLocals(failures, interference, updates) ==
    /\ status = NoStatus
    /\ pass = [p \in Workers |-> IdlePass]
    /\ budget = [failures |-> failures, interference |-> interference,
                 updates |-> updates]
    /\ hist = NoHistory
    /\ arg = NoArg
    /\ ret = NoRet

Step(p) ==
    \/ Start(p)
    \/ GetServiceAccount(p)
    \/ CreateGCPClient(p)
    \/ DetermineOptions(p)
    \/ GetDefaultGCPZone(p)
    \/ GetStatus(p)
    \/ StoreZone(p)
    \/ FwGet(p)
    \/ FwInsert(p)
    \/ GetFirewallRule(p)
    \/ PatchFirewallRule(p)
    \/ GetDisk(p)
    \/ InsertDisk(p)
    \/ RegetDisk(p)
    \/ GetInstance(p)
    \/ InsertInstance(p)
    \/ RegetInstance(p)
    \/ ResolveEndpoints(p)
    \/ PublishIngress(p)

(* One worker reconciles the bastion pass after pass; calls may fail; the
   provider provisions the instance in its own time. *)
Init ==
    /\ opt \in [valid : BOOLEAN, Zone : {""}, CIDRs : {<<"A", "B">>}]
    /\ fw \in {AllRules(AbsentRule),
               [AllRules(Rule(EgressRanges)) EXCEPT ![IngressAllowSSHName] = Rule(opt.CIDRs)],
               [AllRules(Rule(EgressRanges)) EXCEPT ![IngressAllowSSHName] = Rule(<<"A">>)]}
    /\ disk \in {AbsentDisk, diskDefine}
    /\ inst \in InitialInstances
    /\ InitLocals(0, 0, MaxStatusUpdates)

Next == Step(1) \/ Progress \/ ThirdParty

Spec == Init /\ [][Next]_vars

(* The same without call failures, from any state of the rules and any declared
   CIDR list. *)
InitEnsure ==
    /\ opt \in [valid : {TRUE}, Zone : {""}, CIDRs : CIDRLists]
    /\ fw \in InitialRules
    /\ disk \in {AbsentDisk, ForeignDisk}
    /\ inst \in {NilInstance,
                 Instance(BastionInstanceName, "RUNNING",
                          <<NetworkInterface(InternalIP, <<AccessConfig(ExternalIP)>>)>>)}
    /\ InitLocals(MaxFailures, MaxInterference, MaxStatusUpdates)

NextQuiet == Step(1) \/ Progress

SpecEnsure == InitEnsure /\ [][NextQuiet]_vars

(* Two workers reconcile the same bastion; their calls interleave freely.  No
   call fails of itself and no third party acts.  Disk and instance are absent
   at first: the passes create them. *)
InitConc ==
    /\ opt \in [valid : {TRUE}, Zone : {""}, CIDRs : {<<"A", "B">>}]
    /\ fw \in {AllRules(AbsentRule),
               [AllRules(Rule(EgressRanges)) EXCEPT ![IngressAllowSSHName] = Rule(<<"A">>)]}
    /\ disk = AbsentDisk
    /\ inst = NilInstance
    /\ InitLocals(MaxFailures, MaxInterference, MaxStatusUpdates)

NextConc == (\E p \in Workers : Step(p)) \/ Progress

SpecConc == InitConc /\ [][NextConc]_vars

(* One worker that the scheduler keeps invoking, with call failures that run
   out and a provider that makes progress. *)
InitLive ==
    /\ opt \in [valid : BOOLEAN, Zone : {"", DefaultZone}, CIDRs : {<<"A", "B">>}]
    /\ fw \in {AllRules(AbsentRule),
               [AllRules(Rule(EgressRanges)) EXCEPT ![IngressAllowSSHName] = Rule(<<"A">>)]}
    /\ disk \in {AbsentDisk, diskDefine}
    /\ inst \in InitialInstances
    /\ InitLocals(0, MaxInterference, MaxStatusUpdates)

SpecLive ==
    /\ InitLive
    /\ [][NextQuiet]_vars
    /\ WF_vars(Step(1))
    /\ WF_vars(ProviderStartsInstance)
    /\ WF_vars(ProviderAssignsNatIP)

(* One worker whose calls may fail, any of them, so that a pass is cut short
   after any prefix of its calls; no third party acts. *)
InitRecover ==
    /\ opt \in [valid : {TRUE}, Zone : {"", DefaultZone}, CIDRs : {<<"A", "B">>}]
    /\ fw \in {f \in InitialRules :
                 /\ f[IngressAllowSSHName] \in {AbsentRule, Rule(<<"A">>), Rule(<<"A", "B">>)}
                 /\ f[EgressDenyAllName] # Rule(DriftedEgressRanges)}
    /\ disk \in {AbsentDisk, ForeignDisk}
    /\ inst \in {NilInstance, computeInstanceDefine, ReadyInstance}
    /\ InitLocals(0, MaxInterference, MaxStatusUpdates)

SpecRecover == InitRecover /\ [][NextQuiet]_vars

(* One worker, while another controller updates the Bastion's status. *)
InitStatus ==
    /\ opt \in [valid : {TRUE}, Zone : {"", DefaultZone}, CIDRs : {<<"A", "B">>}]
    /\ fw \in {AllRules(AbsentRule),
               [AllRules(Rule(EgressRanges)) EXCEPT ![IngressAllowSSHName] = Rule(<<"A">>)]}
    /\ disk \in {AbsentDisk, diskDefine}
    /\ inst \in {NilInstance, ReadyInstance}
    /\ InitLocals(MaxFailures, MaxInterference, 0)

NextStatus == Step(1) \/ Progress \/ OtherControllerUpdatesStatus

SpecStatus == InitStatus /\ [][NextStatus]_vars

(* One worker that is asked to tear the bastion down, again and again, from any
   state of the resources; calls may fail. *)
InitDelete ==
    /\ opt \in [valid : {TRUE}, Zone : {DefaultZone}, CIDRs : {<<"A", "B">>}]
    /\ fw \in InitialRules
    /\ disk \in {AbsentDisk, diskDefine, ForeignDisk}
    /\ inst \in {NilInstance, computeInstanceDefine, ReadyInstance}
    /\ InitLocals(0, MaxInterference, MaxStatusUpdates)

NextDelete == StepDelete(1)

SpecDelete == InitDelete /\ [][NextDelete]_vars

(* One worker whose calls do not fail, while third parties delete and change
   the resources. *)
InitThird ==
    /\ opt \in [valid : {TRUE}, Zone : {"", DefaultZone}, CIDRs : {<<"A", "B">>}]
    /\ fw \in {AllRules(AbsentRule),
               [AllRules(Rule(EgressRanges)) EXCEPT ![IngressAllowSSHName] = Rule(<<"A">>)]}
    /\ disk \in {AbsentDisk, diskDefine}
    /\ inst \in {NilInstance, ReadyInstance}
    /\ InitLocals(MaxFailures, 0, MaxStatusUpdates)

SpecThird == InitThird /\ [][Next]_vars

(* One worker whose calls may fail, from any instance and any disk the provider
   may hold under the bastion's names, configured as the descriptors say or
   otherwise; no third party acts. *)
InitFrame ==
    /\ opt \in [valid : {TRUE}, Zone : {""}, CIDRs : {<<"A", "B">>}]
    /\ fw \in {f \in InitialRules :
                 /\ f[IngressAllowSSHName] \in {AbsentRule, Rule(<<"A">>), Rule(<<"A", "B">>)}
                 /\ f[EgressDenyAllName] \in {Rule(EgressRanges), Rule(DriftedEgressRanges)}
                 /\ f[EgressAllowOnlyName] = Rule(EgressRanges)}
    /\ disk \in {AbsentDisk, diskDefine, ForeignDisk}
    /\ inst \in InitialInstances
    /\ InitLocals(0, MaxInterference, MaxStatusUpdates)

SpecFrame == InitFrame /\ [][NextQuiet]_vars

(* The endpoint check and the publication of a pass, on every instance up to the
   bounds that ensureComputeInstance may have returned: the pass is where
   ensureComputeInstance has just returned. *)
InitEndpoints ==
    /\ opt = [valid |-> TRUE, Zone |-> DefaultZone, CIDRs |-> <<"A", "B">>]
    /\ fw = [AllRules(Rule(EgressRanges)) EXCEPT ![IngressAllowSSHName] = Rule(opt.CIDRs)]
    /\ disk = diskDefine
    /\ inst \in InstanceInputs \ {NilInstance}
    /\ status = [NoStatus EXCEPT !.providerStatus = DefaultZone]
    /\ pass = [p \in Workers |->
                 IF p = 1
                 THEN [IdlePass EXCEPT
                         !.pc = "getInstanceEndpoints", !.op = "Reconcile",
                         !.Zone = DefaultZone, !.item = Len(firewallList),
                         !.instance = inst,
                         !.calls = <<"getStatus", "updateProviderStatus", "getFirewall",
                                     "getFirewall", "getFirewall", "getFirewall",
                                     "getDisk", "getInstance">>,
                         !.fwOK = TRUE, !.diskOK = TRUE, !.ensured = TRUE,
                         !.fw0 = fw, !.goal = EnsureGoal]
                 ELSE IdlePass]
    /\ budget = [failures |-> MaxFailures, interference |-> MaxInterference,
                 updates |-> MaxStatusUpdates]
    /\ hist = NoHistory
    /\ arg = NoArg
    /\ ret = NoRet

NextEndpoints == ResolveEndpoints(1) \/ GetStatus(1) \/ PublishIngress(1)

SpecEndpoints == InitEndpoints /\ [][NextEndpoints]_vars

(* The pure functions on all inputs up to the bounds. *)
InitPure ==
    /\ opt = [valid |-> TRUE, Zone |-> DefaultZone, CIDRs |-> <<>>]
    /\ fw = AllRules(AbsentRule)
    /\ disk = AbsentDisk
    /\ inst = NilInstance
    /\ status = NoStatus
    /\ pass = [p \in Workers |-> IdlePass]
    /\ budget = [failures |-> 0, interference |-> 0, updates |-> 0]
    /\ hist = NoHistory
    /\ arg \in {[fn |-> "getInstanceEndpoints", instance |-> i, be |-> NilEndpoints] :
                    i \in InstanceInputs}
               \cup {[fn |-> "Ready", instance |-> NilInstance, be |-> e] :
                    e \in EndpointsInputs}
    /\ ret = NoRet

NextPure == EvalGetInstanceEndpoints \/ EvalReady

SpecPure == InitPure /\ [][NextPure]_vars


----------------------------------------------------------------------------
(* Vocabulary of the properties *)

Done(p) == pass[p].pc = "done"
Called(p, call) == \E i \in 1..Len(pass[p].calls) : pass[p].calls[i] = call
InsertCalls == {"insertFirewall", "insertDisk", "insertInstance"}
Inserted(p) == \E c \in InsertCalls : Called(p, c)
CreationErrors ==
    {"could not create firewall rule",
     "failed to create compute instance disk",
     "failed to create bastion compute instance"}

\* an ingress that is there and carries an IP or a hostname
Present(ingress) == ~ingress.nil /\ (ingress.IP # "" \/ ingress.Hostname # "")

\* the instance has a first network interface with a first access config
HasAccessConfig(instance) ==
    /\ ~instance.nil
    /\ Len(instance.NetworkInterfaces) > 0
    /\ Len(instance.NetworkInterfaces[1].AccessConfigs) > 0

----------------------------------------------------------------------------
(* C1 - Idempotence of the ensure-sequence.  When a pass has completed
   ensureFirewallRules, ensureDisk and ensureComputeInstance and nothing but the
   worker has touched the provider since, the next pass, if no call of it fails,
   issues no insert and no patch, returns no error from the sequence, and
   leaves rules, disk and instance exactly as the first pass left them. *)
C1_EnsureTwiceIsIdempotent ==
    (hist.valid /\ ~pass[1].faulted) =>
        /\ ~Inserted(1)
        /\ ~Called(1, "patchFirewall")
        /\ Snapshot = hist.prev
        /\ Done(1) => pass[1].ensured
        /\ pass[1].ensured => hist.last = hist.prev

\* a second pass has run the whole sequence after a first one that created the disk
C1_Witness ==
    /\ hist.valid
    /\ Done(1)
    /\ pass[1].ensured
    /\ hist.prev.disk = diskDefine
    /\ hist.prev.fw[IngressAllowSSHName] = Rule(<<"A", "B">>)

----------------------------------------------------------------------------
(* C2 - The endpoint is published only on confirmed readiness.  A pass ends in
   success only if it wrote Status.Ingress after obtaining the rules, the disk
   and the instance without error, the instance being RUNNING and both resolved
   endpoints present; a pass that ends with an error or a requeue leaves
   Status.Ingress as it found it. *)
C2_PublishedOnlyWhenReady ==
    /\ (Done(1) /\ pass[1].verdict = "Success") =>
          /\ pass[1].fwOK /\ pass[1].diskOK /\ pass[1].ensured
          /\ ~pass[1].instance.nil
          /\ pass[1].instance.Status = "RUNNING"
          /\ ~pass[1].endpoints.nil
          /\ Present(pass[1].endpoints.private)
          /\ Present(pass[1].endpoints.public)
          /\ status.ingress = pass[1].endpoints.public
    /\ (Done(1) /\ pass[1].verdict # "Success") =>
          status.ingress = pass[1].ingress0
    /\ Running(1) => status.ingress = pass[1].ingress0

\* a pass has published the endpoint of a bastion it created itself
C2_Witness ==
    /\ Done(1)
    /\ pass[1].verdict = "Success"
    /\ pass[1].ingress0.nil
    /\ status.ingress = Ingress("", ExternalIP)

----------------------------------------------------------------------------
(* C3 - Not ready is a requeue, not a failure.  When the instance a pass
   obtained is RUNNING and has an access config on its first interface, but one
   of the resolved endpoints is not present, the pass ends with RequeueAfter
   and a delay of 5 seconds, and does not write Status.Ingress. *)
C3_NotReadyIsRequeue ==
    ( /\ Done(1)
      /\ pass[1].ensured
      /\ pass[1].instance.Status = "RUNNING"
      /\ HasAccessConfig(pass[1].instance)
      /\ pass[1].instance.NetworkInterfaces[1].AccessConfigs[1].NatIP = "" ) =>
        /\ pass[1].verdict = "RequeueAfter"
        /\ pass[1].RequeueAfter = 5
        /\ ~pass[1].endpoints.nil
        /\ ~Present(pass[1].endpoints.public)
        /\ ~Called(1, "updateIngress")
        /\ status.ingress = pass[1].ingress0

\* a pass has been told to come back for a running instance without external address
C3_Witness ==
    /\ Done(1)
    /\ pass[1].verdict = "RequeueAfter"
    /\ pass[1].instance.Status = "RUNNING"
    /\ pass[1].instance.NetworkInterfaces[1].AccessConfigs[1].NatIP = ""

----------------------------------------------------------------------------
(* C4 - An instance that is not running is a hard failure.  When the instance
   a pass obtained is in any state other than RUNNING, endpoint resolution
   gives an error and no endpoints, and the pass ends with a plain error, not
   with RequeueAfter. *)
C4_NotRunningIsError ==
    ( /\ Done(1)
      /\ pass[1].ensured
      /\ pass[1].instance.Status # "RUNNING" ) =>
        /\ pass[1].verdict = "Error"
        /\ pass[1].err = ErrNotRunning
        /\ pass[1].RequeueAfter = 0
        /\ pass[1].endpoints.nil

\* a pass has failed on the instance it had just created, still being provisioned
C4_Witness ==
    /\ Done(1)
    /\ pass[1].ensured
    /\ Called(1, "insertInstance")
    /\ pass[1].instance.Status = "PROVISIONING"
    /\ pass[1].verdict = "Error"

----------------------------------------------------------------------------
(* C5 - Eventual convergence.  As stated: if the provider eventually reports
   the instance RUNNING with an external address (the scheduler keeps invoking
   Reconcile, failures run out, no third party acts), some pass eventually
   succeeds with Status.Ingress set to the public endpoint and from some point
   on every pass that ends, ends in success. *)
Reachable ==
    /\ inst.Status = "RUNNING"
    /\ HasAccessConfig(inst)
    /\ inst.NetworkInterfaces[1].AccessConfigs[1].NatIP # ""

Converged ==
    /\ Done(1)
    /\ pass[1].verdict = "Success"
    /\ status.ingress = Ingress("", inst.NetworkInterfaces[1].AccessConfigs[1].NatIP)

C5_Original ==
    <>[]Reachable => (<>Converged /\ <>[](Done(1) => pass[1].verdict = "Success"))

(* C5 as amended: the same, provided DetermineOptions accepts the intent. *)
C5_ConvergesWhenOptionsValid ==
    (opt.valid /\ <>[]Reachable) =>
        (<>Converged /\ <>[](Done(1) => pass[1].verdict = "Success"))

\* a pass has succeeded after a pass that a call failure cut short, on an
\* instance the worker created
C5_Witness ==
    /\ Converged
    /\ budget.failures = MaxFailures
    /\ pass[1].aborted
    /\ pass[1].created[BastionInstanceName] = 1

----------------------------------------------------------------------------
(* C6 - Endpoint derivation.  As stated: for a RUNNING instance whose first
   interface has internal IP i and whose first access config has NatIP n, both
   non-empty, getInstanceEndpoints gives private = {IP: i}, public = {IP: n},
   and Ready() is true. *)
Derivable(instance) ==
    /\ instance.Status = "RUNNING"
    /\ HasAccessConfig(instance)
    /\ instance.NetworkInterfaces[1].NetworkIP # ""
    /\ instance.NetworkInterfaces[1].AccessConfigs[1].NatIP # ""

C6_Original ==
    (ret.done /\ arg.fn = "getInstanceEndpoints" /\ Derivable(arg.instance)) =>
        /\ ret.err = ErrNone
        /\ ret.endpoints.private =
              Ingress("", arg.instance.NetworkInterfaces[1].NetworkIP)
        /\ ret.endpoints.public =
              Ingress("", arg.instance.NetworkInterfaces[1].AccessConfigs[1].NatIP)
        /\ ret.ready

(* C6 as amended: the private endpoint also carries the instance name as its
   hostname: private = {Hostname: name, IP: i}, public = {IP: n}, Ready(). *)
C6_EndpointDerivation ==
    (ret.done /\ arg.fn = "getInstanceEndpoints" /\ Derivable(arg.instance)) =>
        /\ ret.err = ErrNone
        /\ ~ret.endpoints.nil
        /\ ret.endpoints.private =
              Ingress(arg.instance.Name, arg.instance.NetworkInterfaces[1].NetworkIP)
        /\ ret.endpoints.public =
              Ingress("", arg.instance.NetworkInterfaces[1].AccessConfigs[1].NatIP)
        /\ ret.ready

\* the case of the specification: 10.0.0.5 and 34.1.2.3, on a named instance
\* with a second interface and a second access config
C6_Witness ==
    /\ ret.done
    /\ arg.fn = "getInstanceEndpoints"
    /\ arg.instance.Name = BastionInstanceName
    /\ arg.instance.Status = "RUNNING"
    /\ Len(arg.instance.NetworkInterfaces) = 2
    /\ arg.instance.NetworkInterfaces[1] =
          NetworkInterface(InternalIP, <<AccessConfig(ExternalIP), AccessConfig("")>>)
    /\ ret.endpoints.public.IP = ExternalIP

----------------------------------------------------------------------------
(* C7 - Drift self-heal.  When the ingress-allow-SSH rule existed at the start
   of a pass and ensureFirewallRules has returned without error, the rule's
   source ranges are exactly the declared CIDR list, and each egress rule that
   existed at the start of the pass is as it was. *)
C7_DriftSelfHeal ==
    ( /\ Running(1) \/ Done(1)
      /\ pass[1].fwOK
      /\ ~pass[1].faulted
      /\ pass[1].fw0[IngressAllowSSHName].exists ) =>
        /\ fw[IngressAllowSSHName] = Rule(opt.CIDRs)
        /\ \A n \in {EgressDenyAllName, EgressAllowOnlyName} :
              pass[1].fw0[n].exists => fw[n] = pass[1].fw0[n]

\* the case of the specification: the rule had {A}, {A,B} is declared, the rule was
\* patched, and a drifted egress rule was there all along
C7_Witness ==
    /\ pass[1].fwOK
    /\ pass[1].fw0[IngressAllowSSHName] = Rule(<<"A">>)
    /\ pass[1].fw0[EgressDenyAllName] = Rule(DriftedEgressRanges)
    /\ opt.CIDRs = <<"A", "B">>
    /\ Called(1, "patchFirewall")
    /\ fw[IngressAllowSSHName] = Rule(<<"A", "B">>)

----------------------------------------------------------------------------
(* C8 - A missing access config is an error.  When the instance a pass
   obtained is RUNNING and its first network interface has no access config,
   whether or not it has an internal IP, endpoint resolution gives an error and
   no endpoints, and the pass ends with a plain error, not with RequeueAfter. *)
C8_NoAccessConfigIsError ==
    ( /\ Done(1)
      /\ pass[1].ensured
      /\ pass[1].instance.Status = "RUNNING"
      /\ Len(pass[1].instance.NetworkInterfaces) > 0
      /\ Len(pass[1].instance.NetworkInterfaces[1].AccessConfigs) = 0 ) =>
        /\ pass[1].verdict = "Error"
        /\ pass[1].err = ErrNoAccessConfig
        /\ pass[1].RequeueAfter = 0
        /\ pass[1].endpoints.nil

\* a pass has failed on a running instance that has an internal IP but no access config
C8_Witness ==
    /\ Done(1)
    /\ pass[1].ensured
    /\ pass[1].instance.Status = "RUNNING"
    /\ pass[1].instance.NetworkInterfaces = <<NetworkInterface(InternalIP, <<>>)>>
    /\ pass[1].verdict = "Error"

----------------------------------------------------------------------------
(* C9 - Readiness is a function of the endpoint pair.  Ready() is true exactly
   when the endpoints value is not nil and the private and the public ingress
   are both not nil and each has an IP or a hostname; asking again about the
   same pair gives the same answer. *)
C9_ReadyIffBothPresent ==
    (ret.done /\ arg.fn = "Ready") =>
        /\ ret.endpoints = arg.be
        /\ ret.ready <=>
              /\ ~arg.be.nil
              /\ ~arg.be.private.nil
              /\ (arg.be.private.IP # "" \/ arg.be.private.Hostname # "")
              /\ ~arg.be.public.nil
              /\ (arg.be.public.IP # "" \/ arg.be.public.Hostname # "")

\* a pair found ready whose private ingress has only a hostname
C9_Witness ==
    /\ ret.done
    /\ arg.fn = "Ready"
    /\ ret.ready
    /\ arg.be.private = Ingress(BastionInstanceName, "")
    /\ arg.be.public = Ingress("", ExternalIP)

----------------------------------------------------------------------------
(* C10 - Duplicate concurrent passes are safe.  When two passes for the same
   bastion interleave at call boundaries, a pass that fails within the
   ensure-sequence fails with a creation error, on an insert the provider
   refused because the other pass had created the resource; and a pass that
   runs alone after such a refusal issues no insert and gets no creation
   error.  (The provider keeps one resource per name.) *)
C10_DuplicatePassesAreSafe ==
    \A p \in Workers :
        /\ (Done(p) /\ pass[p].verdict = "Error" /\ ~pass[p].ensured) =>
              /\ pass[p].err \in CreationErrors
              /\ pass[p].calls[Len(pass[p].calls)] \in InsertCalls
              /\ ~pass[p].solo
              /\ hist.conflict
        /\ (pass[p].solo /\ pass[p].afterConflict) =>
              /\ ~Inserted(p)
              /\ pass[p].err \notin CreationErrors
              /\ Done(p) => pass[p].ensured

\* a pass has run alone through the ensure-sequence after an insert was refused
C10_Witness ==
    \E p \in Workers :
        /\ Done(p)
        /\ pass[p].solo
        /\ pass[p].afterConflict
        /\ pass[p].ensured
        /\ pass[3 - p].err = "failed to create compute instance disk"

----------------------------------------------------------------------------
(* C11 - Recovery from an aborted pass.  When a pass is cut short by a failing
   call after any prefix of its calls, nothing being cleaned up, a following
   pass in which no call fails completes the ensure-sequence, and what it
   leaves is what an uninterrupted pass from the original state leaves: the
   three rules, the ingress rule with the declared CIDRs, one disk and one
   instance, those that existed being kept; and no resource is created a
   second time. *)
C11_RecoveryFromAbortedPass ==
    /\ pass[1].ensured =>
          /\ fw = pass[1].goal.fw
          /\ disk = pass[1].goal.disk
          /\ ~inst.nil
          /\ pass[1].goal.instKept => pass[1].created[BastionInstanceName] = 0
    /\ \A r \in Resources : pass[1].created[r] <= 1
    /\ (pass[1].aborted /\ Done(1) /\ ~pass[1].faulted) => pass[1].ensured

\* a pass was cut short after it had created the rules and the disk, and the next
\* pass has completed the sequence, creating the instance only
C11_Witness ==
    /\ pass[1].aborted
    /\ Done(1)
    /\ pass[1].ensured
    /\ pass[1].calls = <<"getDefaultGCPZone", "getStatus", "updateProviderStatus",
                         "getFirewall", "getFirewall", "getFirewall", "getFirewall",
                         "getDisk", "getInstance", "insertInstance", "getInstance">>
    /\ \A r \in Resources : pass[1].created[r] = 1

----------------------------------------------------------------------------
(* C12 - Status writes do not clobber concurrent updates.  Both status writes
   of a pass are attempts of a transaction that reads the status, applies the
   mutation and writes; when another controller has updated the status in
   between, the attempt meets a conflict, and the pass reads again and applies
   the mutation again.  What the other controller wrote to the field the pass
   does not set is in the status at all times, the mutation of the pass is in
   the status once its write is through, and a pass ends with a conflict error
   only when all its attempts have met a conflict. *)
Attempts(p, call) ==
    Cardinality({i \in 1..Len(pass[p].calls) : pass[p].calls[i] = call})

C12_StatusWritesDoNotClobber ==
    /\ status.other = budget.updates
    /\ Called(1, "getFirewall") => status.providerStatus = pass[1].Zone
    /\ (Done(1) /\ pass[1].verdict = "Success") =>
          status.ingress = pass[1].endpoints.public
    /\ Running(1) => pass[1].attempt < DefaultBackoffSteps
    /\ (Done(1) /\ pass[1].verdict = "Error" /\ ~pass[1].ensured) =>
          /\ pass[1].attempt = DefaultBackoffSteps
          /\ Attempts(1, "updateProviderStatus") = DefaultBackoffSteps
    /\ (Done(1) /\ pass[1].err = ErrConflict) =>
          /\ pass[1].attempt = DefaultBackoffSteps
          /\ Attempts(1, "updateIngress") = DefaultBackoffSteps

\* a pass has published the endpoint at its second attempt, the other controller
\* having updated the status between the read and the write of the first
C12_Witness ==
    /\ Done(1)
    /\ pass[1].verdict = "Success"
    /\ Attempts(1, "updateIngress") = 2
    /\ status.ingress = Ingress("", ExternalIP)
    /\ status.other > 0

----------------------------------------------------------------------------
(* C13 - Teardown idempotence.  A Delete in which no call fails returns success
   and leaves no instance, no disk and no rule, whatever was there, a resource
   that is not found being passed over; a Delete that follows a successful
   Delete finds everything absent and returns success too; and no Delete issues
   a creation call. *)
C13_TeardownIdempotence ==
    (pass[1].op = "Delete") =>
        /\ ~Inserted(1)
        /\ \A r \in Resources : pass[1].created[r] = 0
        /\ (Done(1) /\ ~pass[1].faulted) =>
              /\ pass[1].verdict = "Success"
              /\ pass[1].calls = <<"deleteInstance", "deleteDisk", "deleteFirewall",
                                   "deleteFirewall", "deleteFirewall">>
              /\ fw = NoRules /\ ~disk.exists /\ inst.nil
        /\ pass[1].again =>
              /\ pass[1].fw0 = NoRules
              /\ fw = NoRules /\ ~disk.exists /\ inst.nil

\* a second Delete in a row has returned success, no call having failed
C13_Witness ==
    /\ pass[1].op = "Delete"
    /\ pass[1].again
    /\ Done(1)
    /\ pass[1].verdict = "Success"
    /\ budget.failures = 0

----------------------------------------------------------------------------
(* C14 - Strict stage ordering within a pass.  The calls of a pass come in the
   order firewall rules, disk, instance; a disk call is issued only when
   ensureFirewallRules has returned without error, an instance call only when
   ensureDisk has returned without error, and the endpoint check is run only
   when ensureComputeInstance has returned an instance; a pass in which a stage
   has failed has ended, no call of a later stage having been issued. *)
FirewallCalls == {"getFirewall", "insertFirewall", "patchFirewall"}
DiskCalls == {"getDisk", "insertDisk"}
InstanceCalls == {"getInstance", "insertInstance"}
CalledAny(p, calls) == \E c \in calls : Called(p, c)

\* in the log of the pass, every call of the first kind comes before every call of
\* the second
Before(p, first, second) ==
    \A i, j \in 1..Len(pass[p].calls) :
        (pass[p].calls[i] \in first /\ pass[p].calls[j] \in second) => i < j

C14_StrictStageOrdering ==
    /\ Before(1, FirewallCalls, DiskCalls)
    /\ Before(1, DiskCalls, InstanceCalls)
    /\ Before(1, FirewallCalls, InstanceCalls)
    /\ CalledAny(1, DiskCalls) => pass[1].fwOK
    /\ CalledAny(1, InstanceCalls) => pass[1].diskOK
    /\ pass[1].resolved => (pass[1].ensured /\ ~pass[1].instance.nil)
    /\ pass[1].pc \in {"getInstanceEndpoints", "publish", "updateIngress"} =>
          pass[1].ensured
    /\ (Done(1) /\ pass[1].verdict = "Error" /\ ~pass[1].fwOK) =>
          (~CalledAny(1, DiskCalls \cup InstanceCalls) /\ ~pass[1].resolved)
    /\ (Done(1) /\ pass[1].verdict = "Error" /\ ~pass[1].diskOK) =>
          (~CalledAny(1, InstanceCalls) /\ ~pass[1].resolved)
    /\ (Done(1) /\ pass[1].verdict = "Error" /\ ~pass[1].ensured) =>
          ~pass[1].resolved
    /\ (pass[1].faulted /\ pass[1].op = "Reconcile") => Done(1)

\* a pass has ended on the failed insert of the disk, after the rules were ensured
C14_Witness ==
    /\ Done(1)
    /\ pass[1].verdict = "Error"
    /\ pass[1].fwOK
    /\ Called(1, "patchFirewall")
    /\ pass[1].calls[Len(pass[1].calls)] = "insertDisk"
    /\ ~CalledAny(1, InstanceCalls)

----------------------------------------------------------------------------
(* C15 - The zone is persisted before any resource work.  In every pass the
   status update that stores the zone is issued when the zone is resolved, the
   zone being the declared one or, when none is declared, the one the provider
   query gave, and before any firewall, disk or instance call; when a resource
   call has been issued the zone of the pass is in providerStatus; and when the
   status update fails the pass ends with an error, no firewall, disk or
   instance call having been issued. *)
ResourceCalls == FirewallCalls \cup DiskCalls \cup InstanceCalls
ErrStoreZone == "failed to store status.providerStatus for zone"

C15_ZoneStoredBeforeResourceWork ==
    /\ Called(1, "updateProviderStatus") =>
          /\ pass[1].Zone # ""
          /\ pass[1].Zone = IF opt.Zone = "" THEN DefaultZone ELSE opt.Zone
          /\ Before(1, {"getDefaultGCPZone"}, {"updateProviderStatus"})
    /\ CalledAny(1, ResourceCalls) =>
          /\ Called(1, "updateProviderStatus")
          /\ Before(1, {"updateProviderStatus"}, ResourceCalls)
          /\ status.providerStatus = pass[1].Zone
    /\ (Done(1) /\ pass[1].err = ErrStoreZone) =>
          /\ pass[1].verdict = "Error"
          /\ ~CalledAny(1, ResourceCalls)
    /\ (pass[1].faulted /\ pass[1].calls # <<>>
          /\ pass[1].calls[Len(pass[1].calls)] = "updateProviderStatus") =>
          /\ Done(1)
          /\ pass[1].err = ErrStoreZone

\* a pass has ended on the failed status update, the zone having been queried
C15_Witness ==
    /\ Done(1)
    /\ pass[1].faulted
    /\ pass[1].err = ErrStoreZone
    /\ pass[1].Zone = DefaultZone
    /\ pass[1].calls = <<"getDefaultGCPZone", "getStatus", "updateProviderStatus">>
    /\ status.providerStatus = ""

----------------------------------------------------------------------------
(* C16 - Create-then-reconfirm.  In ensureDisk and in ensureComputeInstance
   alike: when the first fetch finds the resource, the procedure returns it and
   issues no insert; and when the resource was absent, the insert succeeded and
   the fetch that follows it still reports the resource absent, a third party
   having deleted it in between, the procedure returns an error, so that the
   pass ends there and no later stage is run. *)
ErrDiskNotConfirmed == "failed to get (create) compute instance disk"
ErrInstanceNotConfirmed == "failed to get (create) bastion compute instance"

\* the pass takes the step that handles the answer to the call it is at
Answered(label) == pass[1].pc = label /\ pass'[1] # pass[1]

C16_CreateThenReconfirm ==
    /\ [][ /\ (Answered("regetDisk") /\ ~disk.exists) =>
                 /\ pass'[1].pc = "done"
                 /\ pass'[1].verdict = "Error"
                 /\ pass'[1].err = ErrDiskNotConfirmed
                 /\ ~pass'[1].diskOK
           /\ (Answered("regetInstance") /\ inst.nil) =>
                 /\ pass'[1].pc = "done"
                 /\ pass'[1].verdict = "Error"
                 /\ pass'[1].err = ErrInstanceNotConfirmed
                 /\ ~pass'[1].ensured
           /\ (Answered("getDisk") /\ disk.exists) =>
                 /\ pass'[1].pc = "getInstance"
                 /\ pass'[1].diskOK
           /\ (Answered("getInstance") /\ ~inst.nil) =>
                 /\ pass'[1].pc = "getInstanceEndpoints"
                 /\ pass'[1].instance = inst
           /\ (pass'[1].pc = "insertDisk" /\ pass[1].pc # "insertDisk") =>
                 (pass[1].pc = "getDisk" /\ ~disk.exists)
           /\ (pass'[1].pc = "insertInstance" /\ pass[1].pc # "insertInstance") =>
                 (pass[1].pc = "getInstance" /\ inst.nil)
         ]_vars
    /\ [](pass[1].err = ErrDiskNotConfirmed =>
             (Done(1) /\ ~CalledAny(1, InstanceCalls) /\ ~pass[1].resolved))
    /\ [](pass[1].err = ErrInstanceNotConfirmed =>
             (Done(1) /\ ~pass[1].resolved /\ ~Called(1, "updateIngress")))

\* a pass has created the disk, a third party has deleted it, and the pass has
\* ended on the fetch that did not find it
C16_Witness ==
    /\ Done(1)
    /\ pass[1].err = ErrDiskNotConfirmed
    /\ pass[1].created[DiskName] = 1
    /\ ~disk.exists
    /\ budget.interference > 0

----------------------------------------------------------------------------
(* C17 - The patch condition is order-sensitive equality.  When the three rules
   have been ensured and the ingress-allow-SSH rule has been fetched,
   ensureFirewallRules issues a patch of that rule if and only if the source
   ranges fetched and the declared CIDRs differ as sequences, in length or at
   some position: the same CIDRs in another order are patched, equal sequences
   are not.  The patch changes the ingress rule only; no egress rule is ever
   patched, drifted or not. *)
SameSequence(a, b) ==
    /\ Len(a) = Len(b)
    /\ \A i \in 1..Len(a) : a[i] = b[i]

EgressNames == {EgressDenyAllName, EgressAllowOnlyName}

C17_PatchIffSequencesDiffer ==
    /\ [][ /\ (Answered("getFirewallRule") /\ fw[IngressAllowSSHName].exists) =>
                 /\ pass[1].item = Len(firewallList)
                 /\ \A n \in FirewallNames : fw[n].exists
                 /\ IF SameSequence(fw[IngressAllowSSHName].ranges, opt.CIDRs)
                    THEN pass'[1].pc = "getDisk" /\ pass'[1].fwOK
                    ELSE pass'[1].pc = "patchFirewallRule"
           /\ (pass'[1].pc = "patchFirewallRule" /\ pass[1].pc # "patchFirewallRule") =>
                 /\ pass[1].pc = "getFirewallRule"
                 /\ ~SameSequence(fw[IngressAllowSSHName].ranges, opt.CIDRs)
           /\ Answered("patchFirewallRule") =>
                 /\ fw'[IngressAllowSSHName] = Rule(opt.CIDRs)
                 /\ \A n \in EgressNames : fw'[n] = fw[n]
           /\ (\E n \in EgressNames : fw[n].exists /\ fw'[n] # fw[n]) =>
                 ~(pass'[1] # pass[1])
         ]_vars
    /\ [](Attempts(1, "patchFirewall") <= 1)

\* the rule had the declared CIDRs in the other order and was patched, while a
\* drifted egress rule was left as it was
C17_Witness ==
    /\ opt.CIDRs = <<"A", "B">>
    /\ pass[1].fw0[IngressAllowSSHName] = Rule(<<"B", "A">>)
    /\ pass[1].fw0[EgressDenyAllName] = Rule(DriftedEgressRanges)
    /\ Called(1, "patchFirewall")
    /\ fw[IngressAllowSSHName] = Rule(<<"A", "B">>)
    /\ fw[EgressDenyAllName] = Rule(DriftedEgressRanges)

----------------------------------------------------------------------------
(* C18 - The zone is queried only when needed.  A pass issues the provider's
   zone query if and only if the options carry no zone: then it is the first
   call of the pass and is issued once, and with a declared zone it is not
   issued at all; when the query fails the pass ends with an error, no status
   update and no firewall, disk or instance call having been issued. *)
C18_ZoneQueryOnlyWhenNeeded ==
    /\ Called(1, "getDefaultGCPZone") => opt.Zone = ""
    /\ pass[1].pc = "getDefaultGCPZone" => opt.Zone = ""
    /\ (pass[1].op = "Reconcile" /\ pass[1].calls # <<>>) =>
          /\ opt.Zone = "" <=> pass[1].calls[1] = "getDefaultGCPZone"
          /\ Attempts(1, "getDefaultGCPZone") = IF opt.Zone = "" THEN 1 ELSE 0
    /\ pass[1].pc = "storeZone" =>
          (opt.Zone = "" <=> Called(1, "getDefaultGCPZone"))
    /\ (Done(1) /\ pass[1].err = ErrZoneQuery) =>
          /\ pass[1].verdict = "Error"
          /\ pass[1].calls = <<"getDefaultGCPZone">>
          /\ status.ingress = pass[1].ingress0
    /\ (pass[1].faulted /\ pass[1].calls = <<"getDefaultGCPZone">>) =>
          (Done(1) /\ pass[1].err = ErrZoneQuery)

\* a pass without declared zone has ended on the failed query, nothing else
\* having been called
C18_Witness ==
    /\ opt.Zone = ""
    /\ Done(1)
    /\ pass[1].verdict = "Error"
    /\ pass[1].err = ErrZoneQuery
    /\ pass[1].calls = <<"getDefaultGCPZone">>
    /\ fw = pass[1].fw0

----------------------------------------------------------------------------
(* C19 - The endpoints of an accepted instance are not nil.  For every instance
   that getInstanceEndpoints accepts, being RUNNING with a first network
   interface that has a first access config, the private and the public
   endpoint are both not nil; so the pass never dereferences a nil public
   endpoint when it publishes, and what it publishes as Status.Ingress has the
   NatIP of the first access config of the instance the pass fetched as its
   IP, and no hostname. *)
Accepted(instance) ==
    /\ ~instance.nil
    /\ instance.Status = "RUNNING"
    /\ HasAccessConfig(instance)

NatIP(instance) == instance.NetworkInterfaces[1].AccessConfigs[1].NatIP

C19_AcceptedEndpointsNotNil ==
    /\ (pass[1].resolved /\ Accepted(pass[1].instance)) =>
          /\ pass[1].err \notin {ErrNilInstance, ErrNotRunning,
                                  ErrNoNetworkInterfaces, ErrNoAccessConfig}
          /\ ~pass[1].endpoints.nil
          /\ ~pass[1].endpoints.private.nil
          /\ ~pass[1].endpoints.public.nil
    /\ (pass[1].resolved /\ ~Accepted(pass[1].instance)) =>
          (Done(1) /\ pass[1].verdict = "Error" /\ pass[1].endpoints.nil)
    /\ pass[1].pc \in {"publish", "updateIngress"} =>
          (Accepted(pass[1].instance) /\ ~pass[1].endpoints.public.nil)
    /\ pass[1].verdict # "Panic"
    /\ (Done(1) /\ pass[1].verdict = "Success") =>
          /\ status.ingress = Ingress("", NatIP(pass[1].instance))
          /\ status.ingress.Hostname = ""
          /\ status.ingress.IP # ""

\* the endpoint of an instance with two interfaces, the first without internal IP,
\* has been published
C19_Witness ==
    /\ Done(1)
    /\ pass[1].verdict = "Success"
    /\ Len(pass[1].instance.NetworkInterfaces) = 2
    /\ pass[1].instance.NetworkInterfaces[1] =
          NetworkInterface("", <<AccessConfig(ExternalIP), AccessConfig("")>>)
    /\ pass[1].endpoints.private = Ingress(BastionInstanceName, "")
    /\ status.ingress = Ingress("", ExternalIP)

----------------------------------------------------------------------------
(* C20 - The private endpoint is always ready.  For every accepted instance
   with a non-empty name the private endpoint carries the name as its hostname
   and is ready, with or without an internal IP; so the pass returns
   RequeueAfter exactly when the NatIP of the first access config is empty and
   goes on to publish the endpoint exactly when it is not, and the public
   endpoint is never ready while the private one is not. *)
C20_PrivateEndpointAlwaysReady ==
    ( /\ pass[1].resolved
      /\ Accepted(pass[1].instance)
      /\ pass[1].instance.Name # "" ) =>
        /\ pass[1].endpoints.private.Hostname = pass[1].instance.Name
        /\ IngressReady(pass[1].endpoints.private)
        /\ ~(IngressReady(pass[1].endpoints.public)
               /\ ~IngressReady(pass[1].endpoints.private))
        /\ IF NatIP(pass[1].instance) = ""
           THEN /\ Done(1)
                /\ pass[1].verdict = "RequeueAfter"
                /\ ~Called(1, "updateIngress")
                /\ status.ingress = pass[1].ingress0
           ELSE /\ pass[1].verdict \notin {"RequeueAfter", "Error"}
                /\ \/ pass[1].pc \in {"publish", "updateIngress"}
                   \/ /\ Done(1)
                      /\ pass[1].verdict = "Success"
                      /\ Called(1, "updateIngress")

\* a pass has been told to come back for an instance that has its internal IP
\* and whose second access config, not its first, has an external address
C20_Witness ==
    /\ Done(1)
    /\ pass[1].verdict = "RequeueAfter"
    /\ pass[1].instance.Name = BastionInstanceName
    /\ pass[1].instance.NetworkInterfaces[1] =
          NetworkInterface(InternalIP, <<AccessConfig(""), AccessConfig(ExternalIP)>>)
    /\ pass[1].endpoints.private = Ingress(BastionInstanceName, InternalIP)
    /\ pass[1].endpoints.public = Ingress("", "")

----------------------------------------------------------------------------
(* C21 - A Reconcile pass leaves what exists alone.  No step of a pass deletes
   a rule, the disk or the instance.  A disk or an instance that exists under
   the bastion's name is not changed by any step of a pass, whatever its
   configuration: the fetch that finds it hands it on as it is, the disk to
   the next stage and the instance as the result of ensureComputeInstance, and
   no insert is issued for it.  An egress rule that exists is never changed.
   The one change a pass makes to a resource that exists is the patch of the
   ingress-allow-SSH rule, which sets its source ranges to the declared
   CIDRs. *)
C21_PassLeavesExistingResourcesAlone ==
    [][ (pass'[1] # pass[1]) =>
          /\ \A n \in FirewallNames : fw[n].exists => fw'[n].exists
          /\ \A n \in EgressNames : fw[n].exists => fw'[n] = fw[n]
          /\ disk.exists => disk' = disk
          /\ ~inst.nil => inst' = inst
          /\ (fw[IngressAllowSSHName].exists
                /\ fw'[IngressAllowSSHName] # fw[IngressAllowSSHName]) =>
                /\ pass[1].pc = "patchFirewallRule"
                /\ fw'[IngressAllowSSHName] = Rule(opt.CIDRs)
          /\ (pass[1].pc = "getDisk" /\ disk.exists /\ ~pass'[1].faulted) =>
                /\ pass'[1].pc = "getInstance"
                /\ pass'[1].created = pass[1].created
          /\ (pass[1].pc = "getInstance" /\ ~inst.nil /\ ~pass'[1].faulted) =>
                /\ pass'[1].pc = "getInstanceEndpoints"
                /\ pass'[1].instance = inst
                /\ pass'[1].created = pass[1].created
      ]_vars

\* a pass found a disk of foreign configuration and an instance that is
\* terminated, handed both on as they were and created neither, while it patched
\* the ingress rule and left a drifted egress rule as it was
C21_Witness ==
    /\ pass[1].ensured
    /\ disk = ForeignDisk
    /\ pass[1].created[DiskName] = 0
    /\ ~inst.nil
    /\ inst.Status = "TERMINATED"
    /\ pass[1].instance = inst
    /\ pass[1].created[BastionInstanceName] = 0
    /\ pass[1].fw0[IngressAllowSSHName] = Rule(<<"A">>)
    /\ Called(1, "patchFirewall")
    /\ fw[IngressAllowSSHName] = Rule(opt.CIDRs)
    /\ fw[EgressDenyAllName] = Rule(DriftedEgressRanges)

=============================================================================
